---- MODULE Spec2Model ----
(***************************************************************************)
(* SlopScore: the REST API (POST /api/analyze, GET /api/jobs/:id/status,   *)
(* GET /api/jobs/:id/result, GET /api/repos, GET /api/repos/:id/features)  *)
(* over the tables repositories, jobs, analyses, slop_notes and features,  *)
(* and the deterministic mock analysis that fills them.                    *)
(*                                                                         *)
(* Strings are sequences of UTF-16 code units (what charCodeAt returns).   *)
(* 32-bit integers are kept in their width; numbers that do not fit in 32  *)
(* bits (Math.abs of the most negative hash) are pairs <<hi, lo>> that     *)
(* stand for hi * 65536 + lo.                                              *)
(***************************************************************************)
EXTENDS Integers, Sequences, FiniteSets, TLC

VARIABLES
    repositories,   \* table repositories: set of rows
    jobs,           \* table jobs: set of rows
    analyses,       \* table analyses: set of rows
    slopNotes,      \* table slop_notes: set of rows
    now,            \* database clock, read by defaultNow()
    post,           \* POST /api/analyze requests inside their for loop
    resp,           \* the request just answered, with its response on its way out
    returned,       \* history: <<user, url, jobId>> of every jobs map returned
    authBuild,      \* which of the two getUserId of lib/api/auth.ts is built
    mIn,            \* input of generateMockAnalysis when run on its own
    mPc,            \* how far that run is: input, analysed, stored, returned
    mOut,           \* the result of generateMockAnalysis(mIn)
    mStored,        \* the slop_score column written from it
    mRet,           \* the slopScore a response reads back from the column
    fn,             \* the function of lib/api/errors.ts, lib/utils.ts, the home
                    \* page or ScoreGauge that was called on its own, or none
    fnArg,          \* the argument it is called with
    fnRet           \* what it returned

vars == <<repositories, jobs, analyses, slopNotes, now, post, resp,
          returned, authBuild, mIn, mPc, mOut, mStored, mRet, fn, fnArg, fnRet>>

apiVars == <<repositories, jobs, analyses, slopNotes, now, post, resp,
             returned, authBuild>>

mockVars == <<mIn, mPc, mOut, mStored, mRet>>

callVars == <<fn, fnArg, fnRet>>

----------------------------------------------------------------------------
(* Bounds *)

MaxJobs == 2        \* jobs created in one behaviour
MaxUrls == 2        \* entries of one urls list
MaxLen == 5         \* length of the generated inputs of generateMockAnalysis
MaxName == 2        \* length of the owner and repository names of a slug

----------------------------------------------------------------------------
(* Strings *)

None == "none"

StrHttps == <<104, 116, 116, 112, 115, 58, 47, 47>>                \* https://
StrGithubCom == <<103, 105, 116, 104, 117, 98, 46, 99, 111, 109>>  \* github.com
Slash == 47

\* https://github.com/a/b
UrlAB == StrHttps \o StrGithubCom \o <<47, 97, 47, 98>>
\* https://github.com/a/dtycqop   (its hash ends at -2^31)
UrlMin == StrHttps \o StrGithubCom \o <<47, 97, 47, 100, 116, 121, 99, 113, 111, 112>>
\* https://github.com/a           (no repository part)
UrlNoRepo == StrHttps \o StrGithubCom \o <<47, 97>>
\* polygenelubricants             (its hash ends at -2^31)
StrPoly == <<112, 111, 108, 121, 103, 101, 110, 101, 108, 117, 98, 114, 105,
             99, 97, 110, 116, 115>>
\* DTYC
StrDTYC == <<68, 84, 89, 67>>

----------------------------------------------------------------------------
(* 32-bit arithmetic of lib/api/mock.ts *)

Base == 65536
HalfBase == 32768

\* the pair <<hi, lo>> of a 32-bit integer or of a non-negative number
Limbs(h) == <<h \div Base, h % Base>>

\* a pair with its low part brought into 0..65535
Norm(n) == <<n[1] + (n[2] \div Base), n[2] % Base>>

\* ToInt32 of the number hi * 65536 + lo: wraps modulo 2^32 into
\* -2^31 .. 2^31 - 1
ToInt32(n) ==
    LET m == Norm(n)
    IN  (((m[1] + HalfBase) % Base) - HalfBase) * Base + m[2]

MaxInt32 == 2147483647
MinInt32 == (0 - MaxInt32) - 1

IsInt32(x) == x >= MinInt32 /\ x <= MaxInt32

\* hash << 5
Shl5(h) == ToInt32(<<Limbs(h)[1] * 32, Limbs(h)[2] * 32>>)

\* hash = (hash << 5) - hash + char; hash = hash & hash
hashStep(h, char) ==
    LET s == Shl5(h)
    IN  ToInt32(<<Limbs(s)[1] - Limbs(h)[1], Limbs(s)[2] - Limbs(h)[2] + char>>)

RECURSIVE hashLoop(_, _, _)
hashLoop(str, i, hash) ==
    IF i > Len(str) THEN hash
    ELSE LET next == hashStep(hash, str[i])
         IN  IF IsInt32(next) THEN hashLoop(str, i + 1, next) ELSE next

\* an absolute value that stays in 32 bits: -2^31 for -2^31
MathAbsInt32(h) ==
    IF h >= 0 THEN Limbs(h)
    ELSE Limbs(ToInt32(<<0 - Limbs(h)[1], 0 - Limbs(h)[2]>>))

\* Math.abs of a 32-bit integer, as a number: 2^31 for -2^31
MathAbs(h) ==
    IF h >= 0 THEN Limbs(h)
    ELSE Norm(<<0 - Limbs(h)[1], 0 - Limbs(h)[2]>>)

hashToNumber(str) == MathAbs(hashLoop(str, 1, 0))

\* n % m of JavaScript for a number n given as a pair and 0 < m < 256:
\* the result has the sign of n
JsRem(n, m) ==
    LET pos == IF n[1] < 0 THEN Norm(<<0 - n[1], 0 - n[2]>>) ELSE n
        r == ((pos[1] % m) * (Base % m) + (pos[2] % m)) % m
    IN  IF n[1] < 0 THEN 0 - r ELSE r

\* n + i for a number n given as a pair
NumAdd(n, i) == Norm(<<n[1], n[2] + i>>)

hashToScore(str) == 20 + JsRem(hashToNumber(str), 71)

allNotes ==
    << "Excessive use of any type",
       "Missing documentation",
       "Inconsistent naming conventions",
       "Large files that should be split",
       "Commented-out code blocks",
       "Magic numbers without constants",
       "Incomplete error handling",
       "Deep nesting in functions" >>

\* allNotes[index] of JavaScript: undefined outside the array
NoteAt(index) ==
    IF index \in 0..(Len(allNotes) - 1) THEN allNotes[index + 1] ELSE "undefined"

Includes(seq, x) == \E k \in 1..Len(seq) : seq[k] = x

RECURSIVE notesLoop(_, _, _, _)
notesLoop(repoUrl, i, noteCount, notes) ==
    IF i >= noteCount THEN notes
    ELSE LET index == JsRem(NumAdd(hashToNumber(repoUrl), i), Len(allNotes))
             note == NoteAt(index)
         IN  IF Includes(notes, note)
             THEN notesLoop(repoUrl, i + 1, noteCount, notes)
             ELSE notesLoop(repoUrl, i + 1, noteCount, Append(notes, note))

\* a mock analysis whose score also depends on what is already stored
generateMockAnalysisStateful(repoUrl) ==
    LET score == 20 + ((JsRem(hashToNumber(repoUrl), 71) + Cardinality(analyses)) % 71)
        noteCount == 3 + JsRem(hashToNumber(repoUrl), 3)
    IN  [slopScore |-> score, notes |-> notesLoop(repoUrl, 0, noteCount, <<>>)]

generateMockAnalysis(repoUrl) ==
    LET score == hashToScore(repoUrl)
        noteCount == 3 + JsRem(hashToNumber(repoUrl), 3)
    IN  [slopScore |-> score, notes |-> notesLoop(repoUrl, 0, noteCount, <<>>)]

----------------------------------------------------------------------------
(* Numbers and text: slopScore.toString(), the numeric(5,2) column,        *)
(* parseFloat                                                              *)

Digit0 == 48
Minus == 45
Dot == 46

RECURSIVE DigitsOf(_)
DigitsOf(n) ==
    IF n < 10 THEN <<Digit0 + n>>
    ELSE Append(DigitsOf(n \div 10), Digit0 + (n % 10))

\* Number.prototype.toString of an integer
NumberToString(n) == IF n < 0 THEN <<Minus>> \o DigitsOf(0 - n) ELSE DigitsOf(n)

RECURSIVE ParseDigits(_)
ParseDigits(s) ==
    IF s = <<>> THEN 0
    ELSE ParseDigits(SubSeq(s, 1, Len(s) - 1)) * 10 + (s[Len(s)] - Digit0)

\* the value, in hundredths, of a decimal text [-]d+[.d[d]]
NumericValue(str) ==
    LET neg == str # <<>> /\ str[1] = Minus
        body == IF neg THEN SubSeq(str, 2, Len(str)) ELSE str
        dots == {k \in 1..Len(body) : body[k] = Dot}
        dot == IF dots = {} THEN Len(body) + 1 ELSE CHOOSE k \in dots : TRUE
        whole == ParseDigits(SubSeq(body, 1, dot - 1))
        frac == SubSeq(body, dot + 1, Len(body))
        cents == IF Len(frac) = 0 THEN 0
                 ELSE IF Len(frac) = 1 THEN ParseDigits(frac) * 10
                 ELSE ParseDigits(SubSeq(frac, 1, 2))
        v == whole * 100 + cents
    IN  IF neg THEN 0 - v ELSE v

\* the text a numeric(5,2) column gives back for the text written to it
NumericColumn(str) ==
    LET v == NumericValue(str)
        a == IF v < 0 THEN 0 - v ELSE v
        text == DigitsOf(a \div 100) \o <<Dot, Digit0 + ((a % 100) \div 10),
                                          Digit0 + (a % 10)>>
    IN  IF v < 0 THEN <<Minus>> \o text ELSE text

\* parseFloat of a decimal text: the integer when the fraction is zero,
\* otherwise the pair <<"hundredths", v>>
parseFloat(str) ==
    LET v == NumericValue(str)
    IN  IF v % 100 = 0 THEN v \div 100 ELSE <<"hundredths", v>>

----------------------------------------------------------------------------
(* lib/api/validation.ts *)

Colon == 58

IsAlpha(c) == (c >= 65 /\ c <= 90) \/ (c >= 97 /\ c <= 122)
IsSchemeChar(c) == IsAlpha(c) \/ (c >= 48 /\ c <= 57) \/ c \in {43, 45, 46}

\* z.string().url(): the text starts with a scheme and a colon and goes on
IsUrl(s) ==
    \E k \in 2..Len(s) :
        /\ s[k] = Colon
        /\ k < Len(s)
        /\ IsAlpha(s[1])
        /\ \A m \in 1..(k - 1) : IsSchemeChar(s[m])

GithubPrefix == StrHttps \o StrGithubCom \o <<Slash>>

\* the groups of /^https:\/\/github\.com\/([^/]+)\/([^/]+)\/?$/, or no match
PatternMatch(url) ==
    LET p == Len(GithubPrefix)
        rest == SubSeq(url, p + 1, Len(url))
        slashes == {k \in 1..Len(rest) : rest[k] = Slash}
        first == IF slashes = {} THEN 0
                 ELSE CHOOSE k \in slashes : \A m \in slashes : k <= m
        owner == SubSeq(rest, 1, first - 1)
        tail == SubSeq(rest, first + 1, Len(rest))
        repo == IF tail # <<>> /\ tail[Len(tail)] = Slash
                THEN SubSeq(tail, 1, Len(tail) - 1) ELSE tail
    IN  IF /\ Len(url) > p
           /\ SubSeq(url, 1, p) = GithubPrefix
           /\ first > 1
           /\ repo # <<>>
           /\ \A k \in 1..Len(repo) : repo[k] # Slash
        THEN [matched |-> TRUE, g1 |-> owner, g2 |-> repo]
        ELSE [matched |-> FALSE, g1 |-> <<>>, g2 |-> <<>>]

githubUrlSchema(url) == IsUrl(url) /\ PatternMatch(url).matched

\* name.replace(/\/$/, '')
StripTrailingSlash(s) ==
    IF s # <<>> /\ s[Len(s)] = Slash THEN SubSeq(s, 1, Len(s) - 1) ELSE s

parseGithubUrl(url) ==
    LET m == PatternMatch(url)
    IN  [owner |-> m.g1, name |-> StripTrailingSlash(m.g2)]

----------------------------------------------------------------------------
(* lib/api/errors.ts and lib/api/auth.ts *)

ApiError(statusCode, code, message, details) ==
    [kind |-> "ApiError", statusCode |-> statusCode, code |-> code,
     message |-> message, details |-> details]

\* new Error(message) with code and statusCode set on it afterwards
PlainError(statusCode, code, message) ==
    [kind |-> "Error", statusCode |-> statusCode, code |-> code,
     message |-> message, details |-> None]

\* an errorResponse that goes by the statusCode and code properties of the
\* thrown value instead of its class
errorResponseByProperty(error) ==
    IF error.code # None
    THEN [status |-> error.statusCode,
          body |-> [error |-> [message |-> error.message, code |-> error.code,
                               details |-> error.details]]]
    ELSE [status |-> 500,
          body |-> [error |-> [message |-> "Internal server error",
                               code |-> "INTERNAL_ERROR", details |-> None]]]

\* details |-> None is a body without the details key
errorResponse(error) ==
    IF error.kind = "ApiError"
    THEN [status |-> error.statusCode,
          body |-> [error |-> [message |-> error.message, code |-> error.code,
                               details |-> error.details]]]
    ELSE [status |-> 500,
          body |-> [error |-> [message |-> "Internal server error",
                               code |-> "INTERNAL_ERROR", details |-> None]]]

Json(body) == [status |-> 200, body |-> body]

AuthBuilds == {"ApiError", "Error"}

\* what getUserId throws when auth() has no userId
getUserIdError ==
    IF authBuild = "ApiError"
    THEN ApiError(401, "UNAUTHORIZED", "Authentication required", None)
    ELSE PlainError(401, "UNAUTHORIZED", "Authentication required")

----------------------------------------------------------------------------
(* Requests *)

Users == {"alice", "bob"}

\* auth() gives a userId, or none when there is no session
Sessions == Users \cup {None}

SeqsUpTo(S, n) == UNION {[1..k -> S] : k \in 0..n}

Range(seq) == {seq[k] : k \in 1..Len(seq)}

\* https://github.com/a/b/        (the same repository with a trailing slash)
UrlABSlash == UrlAB \o <<Slash>>

\* the entries a urls list is made of: three URLs the schema accepts and a
\* text it rejects
Entries == {UrlAB, UrlABSlash, UrlMin, UrlNoRepo}

UrlLists == SeqsUpTo(Entries, MaxUrls)

\* the bodies of POST /api/analyze: text that is not JSON, JSON without a
\* urls array, and {urls: [...]}
Bodies ==
    {[kind |-> "malformed", urls |-> <<>>], [kind |-> "other", urls |-> <<>>]}
    \cup {[kind |-> "urls", urls |-> l] : l \in UrlLists}

Id(table, n) == <<table, n>>

JobIds == {Id("job", n) : n \in 1..(MaxJobs + 1)}
RepoIds == {Id("repo", n) : n \in 1..(MaxJobs + 1)}

\* the query strings of GET /api/repos; <<>> and none are absent parameters
DefaultQuery ==
    [limit |-> <<>>, offset |-> <<>>, sortBy |-> None, sortOrder |-> None,
     minScore |-> <<>>, maxScore |-> <<>>, search |-> <<>>]

RepoQueries ==
    { DefaultQuery,
      [DefaultQuery EXCEPT !.limit = <<1>>, !.sortBy = "score", !.sortOrder = "asc"],
      [DefaultQuery EXCEPT !.limit = <<1>>, !.offset = <<1>>, !.sortBy = "url"],
      [DefaultQuery EXCEPT !.minScore = <<61>>],
      [DefaultQuery EXCEPT !.maxScore = <<60>>],
      [DefaultQuery EXCEPT !.search = StrDTYC],
      [DefaultQuery EXCEPT !.limit = <<0>>] }

----------------------------------------------------------------------------
(* POST /api/analyze *)

validateRequestBody(body) ==
    /\ body.kind = "urls"
    /\ \A k \in 1..Len(body.urls) : githubUrlSchema(body.urls[k])

IdlePost == [active |-> FALSE, urls |-> <<>>, i |-> 1, jobMap |-> {}, created |-> <<>>]

\* jobMap[url] = jobId
JobMapSet(jobMap, url, jobId) ==
    {p \in jobMap : p[1] # url} \cup {<<url, jobId>>}

\* urls of started requests that have no job yet
Pending ==
    LET left(u) == IF post[u].active THEN Len(post[u].urls) - post[u].i + 1 ELSE 0
        RECURSIVE Sum(_)
        Sum(S) == IF S = {} THEN 0
                  ELSE LET u == CHOOSE u \in S : TRUE IN left(u) + Sum(S \ {u})
    IN  Sum(Users)

\* an insert without the on conflict clause
RepoInsertRow(url, userId, owner, name) ==
    [id |-> Id("repo", Cardinality(repositories) + 1),
     userId |-> userId, githubUrl |-> url, owner |-> owner,
     name |-> name, createdAt |-> now]

\* insert into repositories ... on conflict (github_url) do update
\* set user_id, owner, name ... returning *
RepoUpsertRow(url, userId, owner, name) ==
    LET existing == {r \in repositories : r.githubUrl = url}
    IN  IF existing # {}
        THEN LET r == CHOOSE r \in existing : TRUE
             IN  [r EXCEPT !.userId = userId, !.owner = owner, !.name = name]
        ELSE [id |-> Id("repo", Cardinality(repositories) + 1),
              userId |-> userId, githubUrl |-> url, owner |-> owner,
              name |-> name, createdAt |-> now]

RepoUpsert(row) ==
    {r \in repositories : r.githubUrl # row.githubUrl} \cup {row}

\* the job row with the column defaults of the schema
JobRowPending(userId, repositoryId) ==
    [id |-> Id("job", Cardinality(jobs) + 1), userId |-> userId,
     repositoryId |-> repositoryId, status |-> "pending",
     currentStep |-> None, progress |-> 0, errorMessage |-> None,
     errorCode |-> None, createdAt |-> now, updatedAt |-> now]

JobRow(userId, repositoryId) ==
    [id |-> Id("job", Cardinality(jobs) + 1), userId |-> userId,
     repositoryId |-> repositoryId, status |-> "completed",
     currentStep |-> None, progress |-> 100, errorMessage |-> None,
     errorCode |-> None, createdAt |-> now, updatedAt |-> now]

AnalysisRow(jobId, repositoryId, slopScore) ==
    [id |-> Id("analysis", Cardinality(analyses) + 1), jobId |-> jobId,
     repositoryId |-> repositoryId,
     slopScore |-> NumericColumn(NumberToString(slopScore)),
     analyzedAt |-> now]

NoteRows(analysisId, notes) ==
    {[id |-> Id("note", Cardinality(slopNotes) + k), analysisId |-> analysisId,
      note |-> notes[k], createdAt |-> now] : k \in 1..Len(notes)}

\* processUrl: one transaction; jobId is the id it returns
processUrl(url, userId, jobId) ==
    LET parsed == parseGithubUrl(url)
        repo == RepoUpsertRow(url, userId, parsed.owner, parsed.name)
        job == JobRow(userId, repo.id)
        mockData == generateMockAnalysis(url)
        analysis == AnalysisRow(job.id, repo.id, mockData.slopScore)
    IN  /\ jobId = job.id
        /\ repositories' = RepoUpsert(repo)
        /\ jobs' = jobs \cup {job}
        /\ analyses' = analyses \cup {analysis}
        /\ slopNotes' = slopNotes \cup NoteRows(analysis.id, mockData.notes)
        /\ now' = now + 1

\* resp of a step that answers no request
NoResponse ==
    [ep |-> None, session |-> None, arg |-> None, status |-> 0,
     body |-> None, created |-> <<>>]

\* a handler has returned a response that is still on its way to the client
Responding == resp.ep # None

\* the response leaves the server
SendResponse ==
    /\ Responding
    /\ resp' = NoResponse
    /\ UNCHANGED <<repositories, jobs, analyses, slopNotes, now, post, returned,
                   authBuild>>

\* the request a step answers and its response; arg is the body or the
\* parameters the handler has read, none when it answered before reading
\* them; created lists the jobs the request created, in order
Respond(ep, session, arg, r, created) ==
    resp' = [ep |-> ep, session |-> session, arg |-> arg, status |-> r.status,
             body |-> r.body, created |-> created]

\* POST up to the for loop: getUserId, req.json(), validateRequestBody
PostAnalyze(session, body) ==
    /\ ~Responding
    /\ session # None => ~post[session].active
    /\ Cardinality(jobs) + Pending + Len(body.urls) <= MaxJobs
    /\ UNCHANGED <<repositories, jobs, analyses, slopNotes, now, returned, authBuild>>
    /\ IF session = None
       THEN /\ Respond("analyze", session, None, errorResponse(getUserIdError), <<>>)
            /\ UNCHANGED post
       ELSE IF body.kind = "malformed"
       THEN /\ Respond("analyze", session, body,
                       errorResponse(PlainError(None, None, "Unexpected token")), <<>>)
            /\ UNCHANGED post
       ELSE IF ~validateRequestBody(body)
       THEN /\ Respond("analyze", session, body,
                       errorResponse(ApiError(400, "INVALID_REQUEST",
                                              "Invalid request body", "errors")), <<>>)
            /\ UNCHANGED post
       ELSE IF body.urls = <<>>
       THEN /\ Respond("analyze", session, body, Json([jobs |-> {}]), <<>>)
            /\ UNCHANGED post
       ELSE /\ post' = [post EXCEPT ![session] =
                           [active |-> TRUE, urls |-> body.urls, i |-> 1,
                            jobMap |-> {}, created |-> <<>>]]
            /\ resp' = NoResponse

\* one turn of the for loop, and the response after the last one
PostProcessUrl(userId) ==
    LET p == post[userId]
        url == p.urls[p.i]
    IN  /\ ~Responding
        /\ p.active
        /\ \E jobId \in JobIds :
              /\ processUrl(url, userId, jobId)
              /\ LET jobMap == JobMapSet(p.jobMap, url, jobId)
                     created == Append(p.created, jobId)
                 IN  IF p.i < Len(p.urls)
                     THEN /\ post' = [post EXCEPT ![userId] =
                                         [p EXCEPT !.i = p.i + 1, !.jobMap = jobMap,
                                                   !.created = created]]
                          /\ resp' = NoResponse
                          /\ UNCHANGED returned
                     ELSE /\ post' = [post EXCEPT ![userId] = IdlePost]
                          /\ Respond("analyze", userId,
                                     [kind |-> "urls", urls |-> p.urls],
                                     Json([jobs |-> jobMap]), created)
                          /\ returned' = returned \cup
                                 {<<userId, q[1], q[2]>> : q \in jobMap}
        /\ UNCHANGED authBuild

----------------------------------------------------------------------------
(* GET /api/jobs/:id/status and GET /api/jobs/:id/result *)

\* select from jobs where id = jobId (no ownership condition)
JobsById(jobId, userId) == {j \in jobs : j.id = jobId}

\* select from jobs where id = jobId and user_id = userId
JobsByIdAndUser(jobId, userId) == {j \in jobs : j.id = jobId /\ j.userId = userId}

\* rows[0] of a select: the rows come in the order they were inserted
First(rows) == CHOOSE r \in rows : \A q \in rows : r.id[2] <= q.id[2]

\* select from analyses (no condition)
AnalysesAll(jobId) == analyses

\* select from analyses where job_id = jobId
AnalysesByJob(jobId) == {a \in analyses : a.jobId = jobId}

\* the notes of an analysis as a bag: the select has no order by
NotesBag(analysisId) ==
    LET rows == {n \in slopNotes : n.analysisId = analysisId}
    IN  [x \in {n.note : n \in rows} |-> Cardinality({n \in rows : n.note = x})]

SeqBag(seq) ==
    [x \in Range(seq) |-> Cardinality({k \in 1..Len(seq) : seq[k] = x})]

GetJobStatus(session, jobId) ==
    /\ ~Responding
    /\ UNCHANGED <<repositories, jobs, analyses, slopNotes, now, post, returned, authBuild>>
    /\ IF session = None
       THEN Respond("status", session, None, errorResponse(getUserIdError), <<>>)
       ELSE LET result == JobsByIdAndUser(jobId, session)
            IN  IF result = {}
                THEN Respond("status", session, jobId,
                             errorResponse(ApiError(404, "NOT_FOUND", "Job not found", None)),
                             <<>>)
                ELSE LET job == First(result)
                     IN  Respond("status", session, jobId,
                                 Json([jobId |-> job.id, status |-> job.status,
                                       currentStep |-> job.currentStep,
                                       progress |-> job.progress,
                                       createdAt |-> job.createdAt,
                                       updatedAt |-> job.updatedAt]), <<>>)

\* x || y for a text column x: null and the empty text are falsy
OrElse(x, y) == IF x = None \/ x = "" THEN y ELSE x

\* the rest of the handler for a job that is 'completed'
CompletedResult(job) ==
    LET analysisResult == AnalysesByJob(job.id)
    IN  IF analysisResult = {}
        THEN errorResponse(ApiError(500, "INTERNAL_ERROR",
                                    "Analysis not found for completed job", None))
        ELSE LET analysis == First(analysisResult)
                 repoResult == {r \in repositories : r.id = analysis.repositoryId}
             IN  IF repoResult = {}
                 THEN errorResponse(ApiError(500, "INTERNAL_ERROR",
                                             "Repository not found", None))
                 ELSE LET repo == First(repoResult)
                      IN  Json([jobId |-> job.id, status |-> "completed",
                                result |-> [url |-> repo.githubUrl,
                                            slopScore |-> parseFloat(analysis.slopScore),
                                            notes |-> NotesBag(analysis.id),
                                            analyzedAt |-> analysis.analyzedAt]])

\* a handler without the status test of lines 32-34: whatever is not 'failed' is
\* taken for 'completed'
JobResultEager(job) ==
    IF job.status = "failed"
    THEN Json([jobId |-> job.id, status |-> "failed",
               error |-> [message |-> OrElse(job.errorMessage, "Analysis failed"),
                          code |-> OrElse(job.errorCode, "ANALYSIS_FAILED")]])
    ELSE CompletedResult(job)

\* the body of GET /api/jobs/:id/result for a job found for the user
JobResult(job) ==
    IF job.status # "completed" /\ job.status # "failed"
    THEN errorResponse(ApiError(425, "TOO_EARLY", "Job not yet completed", None))
    ELSE IF job.status = "failed"
    THEN Json([jobId |-> job.id, status |-> "failed",
               error |-> [message |-> OrElse(job.errorMessage, "Analysis failed"),
                          code |-> OrElse(job.errorCode, "ANALYSIS_FAILED")]])
    ELSE CompletedResult(job)

GetJobResult(session, jobId) ==
    /\ ~Responding
    /\ UNCHANGED <<repositories, jobs, analyses, slopNotes, now, post, returned, authBuild>>
    /\ IF session = None
       THEN Respond("result", session, None, errorResponse(getUserIdError), <<>>)
       ELSE LET jobResult == JobsByIdAndUser(jobId, session)
            IN  IF jobResult = {}
                THEN Respond("result", session, jobId,
                             errorResponse(ApiError(404, "NOT_FOUND", "Job not found", None)),
                             <<>>)
                ELSE Respond("result", session, jobId, JobResult(First(jobResult)), <<>>)

----------------------------------------------------------------------------
(* GET /api/repos *)

Opt(o, default) == IF o = <<>> THEN default ELSE o[1]

\* querySchema.parse: the defaults of the absent parameters
QueryParams(q) ==
    [limit |-> Opt(q.limit, 20), offset |-> Opt(q.offset, 0),
     sortBy |-> IF q.sortBy = None THEN "date" ELSE q.sortBy,
     sortOrder |-> IF q.sortOrder = None THEN "desc" ELSE q.sortOrder,
     minScore |-> q.minScore, maxScore |-> q.maxScore, search |-> q.search]

\* querySchema.parse: the ranges of the parameters
QueryValid(q) ==
    LET p == QueryParams(q)
    IN  /\ p.limit >= 1 /\ p.limit <= 100
        /\ p.offset >= 0
        /\ p.sortBy \in {"score", "date", "url"}
        /\ p.sortOrder \in {"asc", "desc"}
        /\ p.minScore # <<>> => (p.minScore[1] >= 0 /\ p.minScore[1] <= 100)
        /\ p.maxScore # <<>> => (p.maxScore[1] >= 0 /\ p.maxScore[1] <= 100)

Lower(s) == [k \in 1..Len(s) |-> IF s[k] >= 65 /\ s[k] <= 90 THEN s[k] + 32 ELSE s[k]]

\* text ilike '%search%' for a search without wildcards
ILikeContains(text, search) ==
    \E k \in 0..(Len(text) - Len(search)) :
        SubSeq(Lower(text), k + 1, k + Len(search)) = Lower(search)

\* a <= b for texts, code unit by code unit
TextLe(a, b) ==
    LET n == IF Len(a) < Len(b) THEN Len(a) ELSE Len(b)
        d == {k \in 1..n : a[k] # b[k]}
    IN  IF d = {} THEN Len(a) <= Len(b)
        ELSE LET k == CHOOSE k \in d : \A m \in d : k <= m IN a[k] < b[k]

\* eq(repositories.userId, userId) and the filters of the query
Conditions(userId, p, row) ==
    /\ row.repo.userId = userId
    /\ p.minScore # <<>> =>
          NumericValue(row.analysis.slopScore) >= NumericValue(NumberToString(p.minScore[1]))
    /\ p.maxScore # <<>> =>
          NumericValue(row.analysis.slopScore) <= NumericValue(NumberToString(p.maxScore[1]))
    /\ p.search # <<>> => ILikeContains(row.repo.githubUrl, p.search)

\* repositories inner join analyses on repositories.id = analyses.repository_id
\* where the conditions hold
JoinRows(userId, p) ==
    {row \in {[repo |-> r, analysis |-> a] : r \in repositories, a \in analyses} :
        /\ row.repo.id = row.analysis.repositoryId
        /\ Conditions(userId, p, row)}

\* x comes no later than y under order by sortColumn asc
SortLe(sortBy, x, y) ==
    CASE sortBy = "score" ->
            NumericValue(x.analysis.slopScore) <= NumericValue(y.analysis.slopScore)
      [] sortBy = "date" -> x.analysis.analyzedAt <= y.analysis.analyzedAt
      [] sortBy = "url" -> TextLe(x.repo.githubUrl, y.repo.githubUrl)

\* the orders the database may return the rows in: ties come in any order
Orderings(rows, sortBy, sortOrder) ==
    {s \in [1..Cardinality(rows) -> rows] :
        /\ \A x \in rows : \E k \in 1..Cardinality(rows) : s[k] = x
        /\ \A k, m \in 1..Cardinality(rows) :
              k < m => IF sortOrder = "asc" THEN SortLe(sortBy, s[k], s[m])
                       ELSE SortLe(sortBy, s[m], s[k])}

\* limit and offset
Page(s, limit, offset) ==
    SubSeq(s, offset + 1, IF offset + limit < Len(s) THEN offset + limit ELSE Len(s))

\* one entry of repos; analysisId is not part of the response, it tells
\* which analysis the entry was made from
RepoEntry(row) ==
    [id |-> row.repo.id, url |-> row.repo.githubUrl,
     slopScore |-> parseFloat(row.analysis.slopScore),
     notes |-> NotesBag(row.analysis.id),
     analyzedAt |-> row.analysis.analyzedAt,
     analysisId |-> row.analysis.id]

GetRepos(session, q) ==
    /\ ~Responding
    /\ UNCHANGED <<repositories, jobs, analyses, slopNotes, now, post, returned, authBuild>>
    /\ IF session = None
       THEN Respond("repos", session, None, errorResponse(getUserIdError), <<>>)
       ELSE IF ~QueryValid(q)
       THEN Respond("repos", session, q,
                    errorResponse(ApiError(400, "INVALID_QUERY_PARAMS",
                                           "Invalid query parameters", "errors")), <<>>)
       ELSE LET params == QueryParams(q)
                rows == JoinRows(session, params)
                total == Cardinality(rows)
            IN  \E s \in Orderings(rows, params.sortBy, params.sortOrder) :
                    LET results == Page(s, params.limit, params.offset)
                    IN  Respond("repos", session, q,
                                Json([repos |-> [k \in 1..Len(results) |-> RepoEntry(results[k])],
                                      pagination |->
                                          [total |-> total, limit |-> params.limit,
                                           offset |-> params.offset,
                                           hasMore |-> params.offset + params.limit < total]]),
                                <<>>)

----------------------------------------------------------------------------
(* GET /api/repos/:repoId/features *)

\* table features: no code of the repository inserts into it
features == {}

GetFeatures(session, repoId) ==
    /\ ~Responding
    /\ UNCHANGED <<repositories, jobs, analyses, slopNotes, now, post, returned, authBuild>>
    /\ IF session = None
       THEN Respond("features", session, None, errorResponse(getUserIdError), <<>>)
       ELSE LET found == {r \in repositories : r.id = repoId /\ r.userId = session}
            IN  IF found = {}
                THEN Respond("features", session, repoId,
                             errorResponse(ApiError(404, "REPO_NOT_FOUND",
                                                    "Repository not found", None)), <<>>)
                ELSE Respond("features", session, repoId,
                             Json([features |->
                                      {[id |-> f.featureId, claim |-> f.claim,
                                        requirement |-> f.requirement,
                                        verification_hint |-> f.verificationHint] :
                                          f \in {g \in features : g.repositoryId = repoId}}]),
                             <<>>)

----------------------------------------------------------------------------
(* generateMockAnalysis on its own, and the way of its score through the   *)
(* slop_score column and back                                              *)

\* code units the generated inputs are made of: a, /, z and U+FFFF
MockAlphabet == {97, 47, 122, 65535}

MockInputs == SeqsUpTo(MockAlphabet, MaxLen) \cup {UrlAB, UrlMin, StrPoly}

\* no function is called on its own
CallIdle ==
    /\ fn = None
    /\ fnArg = None
    /\ fnRet = None

MockIdle ==
    /\ mIn = <<>>
    /\ mPc = "input"
    /\ mOut = [slopScore |-> 0, notes |-> <<>>]
    /\ mStored = <<>>
    /\ mRet = 0

MockAnalyse ==
    /\ mPc = "input"
    /\ mOut' = generateMockAnalysis(mIn)
    /\ mPc' = "analysed"
    /\ UNCHANGED <<mIn, mStored, mRet>>
    /\ UNCHANGED <<apiVars, callVars>>

\* slopScore: mockData.slopScore.toString() into the numeric(5,2) column
MockStore ==
    /\ mPc = "analysed"
    /\ mStored' = NumericColumn(NumberToString(mOut.slopScore))
    /\ mPc' = "stored"
    /\ UNCHANGED <<mIn, mOut, mRet>>
    /\ UNCHANGED <<apiVars, callVars>>

\* slopScore: parseFloat(analysis.slopScore)
MockReturn ==
    /\ mPc = "stored"
    /\ mRet' = parseFloat(mStored)
    /\ mPc' = "returned"
    /\ UNCHANGED <<mIn, mOut, mStored>>
    /\ UNCHANGED <<apiVars, callVars>>

----------------------------------------------------------------------------
(* Specifications *)

ApiInit ==
    /\ repositories = {}
    /\ jobs = {}
    /\ analyses = {}
    /\ slopNotes = {}
    /\ now = 1
    /\ post = [u \in Users |-> IdlePost]
    /\ resp = NoResponse
    /\ returned = {}
    /\ authBuild \in AuthBuilds

Init == ApiInit /\ MockIdle /\ CallIdle

Analyze == \E session \in Sessions, body \in Bodies : PostAnalyze(session, body)
ProcessUrl == \E userId \in Users : PostProcessUrl(userId)
JobStatus == \E session \in Sessions, jobId \in JobIds : GetJobStatus(session, jobId)
JobResultGet == \E session \in Sessions, jobId \in JobIds : GetJobResult(session, jobId)
ReposList == \E session \in Sessions, q \in RepoQueries : GetRepos(session, q)
Features == \E session \in Sessions, repoId \in RepoIds : GetFeatures(session, repoId)

Next ==
    \/ Analyze /\ UNCHANGED <<mockVars, callVars>>
    \/ ProcessUrl /\ UNCHANGED <<mockVars, callVars>>
    \/ JobStatus /\ UNCHANGED <<mockVars, callVars>>
    \/ JobResultGet /\ UNCHANGED <<mockVars, callVars>>
    \/ ReposList /\ UNCHANGED <<mockVars, callVars>>
    \/ Features /\ UNCHANGED <<mockVars, callVars>>
    \/ SendResponse /\ UNCHANGED <<mockVars, callVars>>

Spec == Init /\ [][Next]_vars

MockInit ==
    /\ ApiInit
    /\ mIn \in MockInputs
    /\ mPc = "input"
    /\ mOut = [slopScore |-> 0, notes |-> <<>>]
    /\ mStored = <<>>
    /\ mRet = 0
    /\ CallIdle

MockNext == MockAnalyse \/ MockStore \/ MockReturn

MockSpec == MockInit /\ [][MockNext]_vars

----------------------------------------------------------------------------
(* GET /api/jobs/:id/result over the job rows the schema admits: the status *)
(* column is the enum job_status with default 'pending', error_message and  *)
(* error_code are nullable texts                                            *)

JobStatuses == {"pending", "processing", "completed", "failed"}

\* error_message: null, the empty text, a text
ErrorMessages == {None, "", "Repository not found or is private"}

\* error_code: null, the empty text, a code
ErrorCodes == {None, "", "REPO_NOT_ACCESSIBLE"}

StoredJobs ==
    [id : {Id("job", 1)}, userId : Users, repositoryId : {Id("repo", 1)},
     status : JobStatuses, currentStep : {None}, progress : {0},
     errorMessage : ErrorMessages, errorCode : ErrorCodes,
     createdAt : {1}, updatedAt : {1}]

\* the tables hold one repository, one job of it and, or not, its analysis
ResultInit ==
    \E job \in StoredJobs, analysed \in BOOLEAN :
        LET mockData == generateMockAnalysis(UrlAB)
            parsed == parseGithubUrl(UrlAB)
        IN  /\ repositories =
                   {[id |-> Id("repo", 1), userId |-> job.userId, githubUrl |-> UrlAB,
                     owner |-> parsed.owner, name |-> parsed.name, createdAt |-> 1]}
            /\ jobs = {job}
            /\ analyses =
                   IF analysed
                   THEN {[id |-> Id("analysis", 1), jobId |-> job.id,
                          repositoryId |-> Id("repo", 1),
                          slopScore |-> NumericColumn(NumberToString(mockData.slopScore)),
                          analyzedAt |-> 1]}
                   ELSE {}
            /\ slopNotes =
                   IF analysed
                   THEN {[id |-> Id("note", k), analysisId |-> Id("analysis", 1),
                          note |-> mockData.notes[k], createdAt |-> 1] :
                            k \in 1..Len(mockData.notes)}
                   ELSE {}
            /\ now = 2
            /\ post = [u \in Users |-> IdlePost]
            /\ resp = NoResponse
            /\ returned = {}
            /\ authBuild \in AuthBuilds
            /\ MockIdle
            /\ CallIdle

ResultNext ==
    \/ JobResultGet /\ UNCHANGED <<mockVars, callVars>>
    \/ SendResponse /\ UNCHANGED <<mockVars, callVars>>

ResultSpec == ResultInit /\ [][ResultNext]_vars

----------------------------------------------------------------------------
(* errorResponse on its own, over the values a handler can throw            *)

StatusCodes == {400, 401, 404, 425, 500}

ErrorCodeNames ==
    {"INVALID_REQUEST", "UNAUTHORIZED", "NOT_FOUND", "TOO_EARLY", "INTERNAL_ERROR"}

ErrorTexts ==
    {"Invalid request body", "Authentication required", "Job not found",
     "Unexpected token u in JSON at position 0",
     "connect ECONNREFUSED 127.0.0.1:5432"}

\* details of an error: none, an empty object, { errors: [...] }
DetailValues == {None, "{}", "errors"}

ApiErrors ==
    {ApiError(s, c, m, d) :
        s \in StatusCodes, c \in ErrorCodeNames, m \in ErrorTexts, d \in DetailValues}

OtherKinds == {"Error", "SyntaxError", "ZodError"}

\* what else is thrown: the SyntaxError of req.json(), a ZodError, the
\* error of the database driver
PlainErrors ==
    {[kind |-> k, statusCode |-> None, code |-> None, message |-> m, details |-> d] :
        k \in OtherKinds, m \in ErrorTexts, d \in {None, "errors"}}

\* and an Error with statusCode and code set on it, as getUserId throws
TaggedErrors ==
    {[kind |-> k, statusCode |-> s, code |-> c, message |-> m, details |-> d] :
        k \in OtherKinds, s \in StatusCodes, c \in {"UNAUTHORIZED"},
        m \in ErrorTexts, d \in {None, "errors"}}

ErrorInit ==
    /\ ApiInit
    /\ MockIdle
    /\ fn = None
    /\ \/ fnArg \in ApiErrors
       \/ fnArg \in PlainErrors
       \/ fnArg \in TaggedErrors
    /\ fnRet = None

\* catch (error) { return errorResponse(error) }
CatchError ==
    /\ fn = None
    /\ fn' = "errorResponse"
    /\ fnRet' = errorResponse(fnArg)
    /\ UNCHANGED <<fnArg, apiVars, mockVars>>

ErrorNext == CatchError

ErrorSpec == ErrorInit /\ [][ErrorNext]_vars

----------------------------------------------------------------------------
(* lib/utils.ts: the colours and the label of a score, and the ScoreGauge   *)
(* of components/ScoreGauge.tsx that draws it                               *)

\* a getScoreColor that compares with < where the code compares with <=
getScoreColorBelow(score) ==
    IF score < 30 THEN "text-green-600"
    ELSE IF score < 60 THEN "text-yellow-600"
    ELSE "text-red-600"

getScoreColor(score) ==
    IF score <= 30 THEN "text-green-600"
    ELSE IF score <= 60 THEN "text-yellow-600"
    ELSE "text-red-600"

getScoreBgColor(score) ==
    IF score <= 30 THEN "bg-green-50"
    ELSE IF score <= 60 THEN "bg-yellow-50"
    ELSE "bg-red-50"

getScoreLabel(score) ==
    IF score <= 30 THEN "Clean Code"
    ELSE IF score <= 60 THEN "Some Slop"
    ELSE "High Slop"

MathMax(a, b) == IF a >= b THEN a ELSE b
MathMin(a, b) == IF a <= b THEN a ELSE b

\* what ScoreGauge renders for an integer score: the opacity of the three
\* arc segments in tenths (10 is 1, 3 is 0.3), the rotation of the needle in
\* hundredths of a degree, the class of needle, number and label, the
\* number and the label
ScoreGauge(score, showLabel) ==
    LET clampedScore == MathMax(0, MathMin(100, score))
        colorClass == getScoreColor(clampedScore)
    IN  [opacity |->
            [green |-> IF clampedScore <= 30 THEN 10 ELSE 3,
             yellow |-> IF clampedScore > 30 /\ clampedScore <= 60 THEN 10 ELSE 3,
             red |-> IF clampedScore > 60 THEN 10 ELSE 3],
         rotation |-> clampedScore * 180 - 90 * 100,
         colorClass |-> colorClass,
         text |-> clampedScore,
         label |-> IF showLabel THEN getScoreLabel(clampedScore) ELSE None]

\* the scores the functions are called with: 0..100 and some beyond, which
\* ScoreGauge clamps
ScoreInputs == (0 - 3)..103

BandInit ==
    /\ ApiInit
    /\ MockIdle
    /\ fn = None
    /\ fnArg \in ScoreInputs
    /\ fnRet = None

CallGetScoreColor ==
    /\ fn = None
    /\ fn' = "getScoreColor"
    /\ fnRet' = getScoreColor(fnArg)
    /\ UNCHANGED <<fnArg, apiVars, mockVars>>

CallGetScoreBgColor ==
    /\ fn = None
    /\ fn' = "getScoreBgColor"
    /\ fnRet' = getScoreBgColor(fnArg)
    /\ UNCHANGED <<fnArg, apiVars, mockVars>>

CallGetScoreLabel ==
    /\ fn = None
    /\ fn' = "getScoreLabel"
    /\ fnRet' = getScoreLabel(fnArg)
    /\ UNCHANGED <<fnArg, apiVars, mockVars>>

RenderScoreGauge ==
    /\ fn = None
    /\ fn' = "ScoreGauge"
    /\ \E showLabel \in BOOLEAN : fnRet' = ScoreGauge(fnArg, showLabel)
    /\ UNCHANGED <<fnArg, apiVars, mockVars>>

BandNext ==
    \/ CallGetScoreColor
    \/ CallGetScoreBgColor
    \/ CallGetScoreLabel
    \/ RenderScoreGauge

BandSpec == BandInit /\ [][BandNext]_vars

----------------------------------------------------------------------------
(* lib/utils.ts: generateRepoSlug                                           *)

\* String.prototype.toLowerCase, for ASCII text
toLowerCase(s) ==
    [k \in 1..Len(s) |-> IF s[k] >= 65 /\ s[k] <= 90 THEN s[k] + 32 ELSE s[k]]

\* the class [a-z0-9-]
IsSlugChar(c) == (c >= 97 /\ c <= 122) \/ (c >= 48 /\ c <= 57) \/ c = Minus

\* replace(/[^a-z0-9-]/g, '-')
ReplaceNonSlug(s) == [k \in 1..Len(s) |-> IF IsSlugChar(s[k]) THEN s[k] ELSE Minus]

generateRepoSlug(owner, repo) ==
    ReplaceNonSlug(toLowerCase(owner \o <<Minus>> \o repo))

\* owner names are made of a, A and -; repository names of a, - and .
OwnerNames == SeqsUpTo({97, 65, Minus}, MaxName) \ {<<>>}
RepoNames == SeqsUpTo({97, Minus, Dot}, MaxName) \ {<<>>}

\* the slugs of up to two repositories are generated, one call after the other
SlugInit ==
    /\ ApiInit
    /\ MockIdle
    /\ fn = None
    /\ fnArg = <<>>
    /\ fnRet = <<>>

CallGenerateRepoSlug ==
    /\ Len(fnArg) < 2
    /\ \E owner \in OwnerNames, repo \in RepoNames :
          /\ fnArg' = Append(fnArg, [owner |-> owner, repo |-> repo])
          /\ fnRet' = Append(fnRet, generateRepoSlug(owner, repo))
    /\ fn' = "generateRepoSlug"
    /\ UNCHANGED <<apiVars, mockVars>>

SlugNext == CallGenerateRepoSlug

SlugSpec == SlugInit /\ [][SlugNext]_vars

----------------------------------------------------------------------------
(* app/page.tsx and app/components/SearchInput.tsx: the search of the home  *)
(* page                                                                     *)

Space == 32

\* String.prototype.trim, for text with spaces
RECURSIVE trim(_)
trim(s) ==
    IF s = <<>> THEN s
    ELSE IF s[1] = Space THEN trim(SubSeq(s, 2, Len(s)))
    ELSE IF s[Len(s)] = Space THEN trim(SubSeq(s, 1, Len(s) - 1))
    ELSE s

\* the class \w
WordChars == {c \in 0..127 : IsAlpha(c) \/ (c >= 48 /\ c <= 57) \/ c = 95}

\* the class [\w-]
OwnerChars == WordChars \cup {Minus}

\* the class [\w.-]
RepoChars == WordChars \cup {Minus, Dot}

\* the literal lit stands at position k of s, whatever the case (flag i)
LiteralAt(s, k, lit) ==
    /\ k + Len(lit) - 1 <= Len(s)
    /\ toLowerCase(SubSeq(s, k, k + Len(lit) - 1)) = lit

\* the position after the longest run of characters of a class from k on
RunEnd(s, k, class) ==
    LET stops == {m \in k..Len(s) : s[m] \notin class}
    IN  IF stops = {} THEN Len(s) + 1
        ELSE CHOOSE m \in stops : \A n \in stops : m <= n

StrHttp == <<104, 116, 116, 112>>               \* http
StrColonSlashes == <<58, 47, 47>>               \* ://
StrWww == <<119, 119, 119, 46>>                 \* www.
StrGithubComSlash == StrGithubCom \o <<Slash>>  \* github.com/

\* /^https?:\/\/(www\.)?github\.com\/[\w-]+\/[\w.-]+\/?$/i.test(url.trim())
validateGitHubUrl(url) ==
    LET u == trim(url)
        p1 == IF LiteralAt(u, 5, <<115>>) THEN 6 ELSE 5
        p2 == p1 + 3
        p3 == IF LiteralAt(u, p2, StrWww) THEN p2 + 4 ELSE p2
        p4 == p3 + Len(StrGithubComSlash)
        p5 == RunEnd(u, p4, OwnerChars)
        p6 == RunEnd(u, p5 + 1, RepoChars)
    IN  /\ LiteralAt(u, 1, StrHttp)
        /\ LiteralAt(u, p1, StrColonSlashes)
        /\ LiteralAt(u, p3, StrGithubComSlash)
        /\ p5 > p4
        /\ p5 <= Len(u) /\ u[p5] = Slash
        /\ p6 > p5 + 1
        /\ \/ p6 = Len(u) + 1
           \/ p6 = Len(u) /\ u[p6] = Slash

\* url.match(/github\.com\/([\w-]+)\/([\w.-]+)/i) tried at position k
MatchAt(url, k) ==
    LET p4 == k + Len(StrGithubComSlash)
        p5 == RunEnd(url, p4, OwnerChars)
        p6 == RunEnd(url, p5 + 1, RepoChars)
    IN  IF /\ LiteralAt(url, k, StrGithubComSlash)
           /\ p5 > p4
           /\ p5 <= Len(url) /\ url[p5] = Slash
           /\ p6 > p5 + 1
        THEN [matched |-> TRUE, g1 |-> SubSeq(url, p4, p5 - 1),
              g2 |-> SubSeq(url, p5 + 1, p6 - 1)]
        ELSE [matched |-> FALSE, g1 |-> <<>>, g2 |-> <<>>]

\* handleSearch: the path given to router.push, or none when the URL does
\* not match
handleSearch(url) ==
    LET starts == {k \in 1..Len(url) : MatchAt(url, k).matched}
    IN  IF starts = {} THEN None
        ELSE LET match == MatchAt(url, CHOOSE k \in starts : \A m \in starts : k <= m)
                 owner == match.g1
                 repo == match.g2
                 repoSlug == owner \o <<Minus>> \o repo
             IN  <<Slash>> \o repoSlug

\* SearchInput.handleSubmit: the error it shows, or the call of onSubmit
handleSubmit(url) ==
    IF trim(url) = <<>>
    THEN [error |-> "Please enter a GitHub repository URL", pushed |-> None]
    ELSE IF ~validateGitHubUrl(url)
    THEN [error |-> "Please enter a valid GitHub repository URL", pushed |-> None]
    ELSE [error |-> "", pushed |-> handleSearch(trim(url))]

\* what is in front of owner/repo in the text typed: the two forms the
\* input accepts, in two cases, and one without scheme
UrlFronts ==
    { StrHttps \o StrGithubComSlash,
      StrHttp \o StrColonSlashes \o StrWww \o <<71, 105, 116, 72, 117, 98, 46, 99, 111, 109, 47>>,
      StrGithubComSlash }

\* what follows it
UrlEnds == {<<>>, <<Slash>>, <<Space>>, <<Slash, Slash>>}

\* the texts typed into the search input, with the owner and the
\* repository they name
SearchTexts ==
    {[url |-> f \o o \o <<Slash>> \o r \o e, owner |-> o, repo |-> r] :
        f \in UrlFronts, o \in OwnerNames, r \in RepoNames, e \in UrlEnds}
    \cup {[url |-> <<Space>>, owner |-> <<>>, repo |-> <<>>]}

HomeInit ==
    /\ ApiInit
    /\ MockIdle
    /\ fn = None
    /\ fnArg \in SearchTexts
    /\ fnRet = None

\* the form of the search input is submitted
SubmitSearch ==
    /\ fn = None
    /\ fn' = "handleSubmit"
    /\ fnRet' = handleSubmit(fnArg.url)
    /\ UNCHANGED <<fnArg, apiVars, mockVars>>

HomeNext == SubmitSearch

HomeSpec == HomeInit /\ [][HomeNext]_vars

----------------------------------------------------------------------------
(* Properties *)

Answered(ep) == resp.ep = ep /\ resp.session \in Users

\* C1: every job row has status 'completed' and progress 100 and, stored by
\* the same transaction, exactly one analysis; no job is pending,
\* processing or failed.
C1_JobsCompleted ==
    \A j \in jobs :
        /\ j.status = "completed"
        /\ j.progress = 100
        /\ Cardinality({a \in analyses : a.jobId = j.id}) = 1

\* a job exists while a request of another user is inside its loop
C1_Witness ==
    /\ jobs # {}
    /\ \E u \in Users : post[u].active /\ \E j \in jobs : j.userId # u

\* C2: the result of a job that POST /api/analyze returned to user U for URL
\* u, asked for by U, is 'completed' with url u and the score and the notes
\* of generateMockAnalysis(u), whatever was processed in between.
C2_ResultOfSubmission ==
    Answered("result") =>
        \A t \in returned :
            (t[1] = resp.session /\ t[3] = resp.arg) =>
                /\ resp.status = 200
                /\ resp.body.status = "completed"
                /\ resp.body.jobId = t[3]
                /\ resp.body.result.url = t[2]
                /\ resp.body.result.slopScore = generateMockAnalysis(t[2]).slopScore
                /\ resp.body.result.notes = SeqBag(generateMockAnalysis(t[2]).notes)

\* the result of the first job is read after another user submitted the same
\* URL and took the repository over
C2_Witness ==
    /\ Answered("result")
    /\ resp.status = 200
    /\ \E t \in returned :
          /\ t[1] = resp.session
          /\ t[3] = resp.arg
          /\ \E r \in repositories : r.githubUrl = t[2] /\ r.userId # resp.session
          /\ \E j \in jobs : j.id[2] > t[3][2]

UrlOfAnalysis(a) ==
    (CHOOSE r \in repositories : r.id = a.repositoryId).githubUrl

UserOfAnalysis(a) == (CHOOSE j \in jobs : j.id = a.jobId).userId

C4_ScoreRange ==
    /\ mPc # "input" =>
          mOut.slopScore \in 20..90
    /\ mPc \in {"stored", "returned"} =>
          /\ NumericValue(mStored) >= 0
          /\ NumericValue(mStored) <= 100 * 100
          /\ NumericValue(mStored) = mOut.slopScore * 100
    /\ mPc = "returned" =>
          /\ mRet \in 0..100
          /\ mRet = mOut.slopScore

\* the score of an input whose hash ends at -2^31 went to the column and back
C4_Witness == mPc = "returned" /\ hashLoop(mIn, 1, 0) = MinInt32

\* C5: the repositories table holds at most one row per githubUrl; a step
\* keeps every row's id and URL; a step that creates a job creates exactly
\* one job and one analysis, both referencing one repository row, and adds
\* no repository row when the URL was stored already.
C5_OneRowPerUrl ==
    [][ /\ \A r1, r2 \in repositories' : r1.githubUrl = r2.githubUrl => r1 = r2
        /\ \A r \in repositories :
              \E r2 \in repositories' : r2.id = r.id /\ r2.githubUrl = r.githubUrl
        /\ jobs' # jobs =>
              \E j \in jobs' \ jobs, a \in analyses' \ analyses :
                  /\ jobs' = jobs \cup {j}
                  /\ analyses' = analyses \cup {a}
                  /\ a.jobId = j.id
                  /\ a.repositoryId = j.repositoryId
                  /\ \E r \in repositories' :
                        /\ r.id = j.repositoryId
                        /\ (\E old \in repositories : old.githubUrl = r.githubUrl)
                              => Cardinality(repositories') = Cardinality(repositories)
                        /\ (\A old \in repositories : old.githubUrl # r.githubUrl)
                              => Cardinality(repositories') = Cardinality(repositories) + 1
      ]_vars

\* a URL was submitted again: its one repository row has two jobs
C5_Witness ==
    \E r \in repositories :
        Cardinality({j \in jobs : j.repositoryId = r.id}) >= 2

\* C6: every job a successful POST /api/analyze created, one for each entry
\* of urls, appears in the jobs map of its response.
C6_EveryJobReturned ==
    (resp.ep = "analyze" /\ resp.status = 200) =>
        /\ Len(resp.created) = Len(resp.arg.urls)
        /\ \A k \in 1..Len(resp.created) :
              \E p \in resp.body.jobs : p[2] = resp.created[k]

NotFoundBody ==
    [error |-> [message |-> "Job not found", code |-> "NOT_FOUND", details |-> None]]

\* C7: status and result answer 200 only to the user stored on the job; a
\* request for another user's job gets the 404 NOT_FOUND response a
\* missing job gets.
C7_JobsOnlyForOwner ==
    (Answered("status") \/ Answered("result")) =>
        LET owned == \E j \in jobs : j.id = resp.arg /\ j.userId = resp.session
        IN  /\ resp.status = 200 => owned
            /\ ~owned => (resp.status = 404 /\ resp.body = NotFoundBody)

\* a user asked for the job of another user
C7_Witness ==
    /\ Answered("status") \/ Answered("result")
    /\ resp.status = 404
    /\ \E j \in jobs : j.id = resp.arg /\ j.userId # resp.session

\* C8: every entry GET /api/repos returns to user U was made from the
\* analysis of a job that U created.
C8_OnlyOwnSubmissions ==
    (Answered("repos") /\ resp.status = 200) =>
        \A k \in 1..Len(resp.body.repos) :
            \E a \in analyses, j \in jobs :
                /\ a.id = resp.body.repos[k].analysisId
                /\ j.id = a.jobId
                /\ j.userId = resp.session

\* C9: GET /api/repos by U without filters, with offset 0 and a limit that
\* covers the total, lists every URL for which a POST /api/analyze of U
\* returned a job.
C9_ListsEverySubmission ==
    (/\ Answered("repos")
     /\ resp.status = 200
     /\ resp.arg.minScore = <<>> /\ resp.arg.maxScore = <<>> /\ resp.arg.search = <<>>
     /\ resp.body.pagination.offset = 0
     /\ resp.body.pagination.total <= resp.body.pagination.limit) =>
        \A t \in returned :
            t[1] = resp.session =>
                \E k \in 1..Len(resp.body.repos) : resp.body.repos[k].url = t[2]

\* C10: a request without a session is answered 401 UNAUTHORIZED.
C10_Unauthorized ==
    (resp.ep # None /\ resp.session = None) =>
        /\ resp.status = 401
        /\ resp.body.error.code = "UNAUTHORIZED"

\* C11: POST /api/analyze with a body that is not an object with a urls
\* array, or with an entry the GitHub URL schema rejects, is answered 400
\* INVALID_REQUEST, and the step that answers it leaves the four tables as
\* they are.
C11_InvalidRequest ==
    [][ (/\ resp'.ep = "analyze"
         /\ resp'.session \in Users
         /\ ~validateRequestBody(resp'.arg)) =>
            /\ resp'.status = 400
            /\ resp'.body.error.code = "INVALID_REQUEST"
            /\ UNCHANGED <<repositories, jobs, analyses, slopNotes>>
      ]_<<repositories, jobs, analyses, slopNotes, resp.ep, resp.session>>

\* C12: GET /api/jobs/:id/result by the owner of the job answers 425
\* TOO_EARLY exactly when the job is 'pending' or 'processing'; for a
\* 'failed' job it answers status 'failed' with the job's errorMessage and
\* errorCode, or 'Analysis failed' and 'ANALYSIS_FAILED' where the job has
\* none, and no result; a result is returned for a 'completed' job only.
C12_ResultByStatus ==
    Answered("result") =>
        \A j \in jobs :
            (j.id = resp.arg /\ j.userId = resp.session) =>
                /\ resp.status = 425 <=> j.status \in {"pending", "processing"}
                /\ resp.status = 425 => resp.body.error.code = "TOO_EARLY"
                /\ j.status = "failed" =>
                      /\ resp.status = 200
                      /\ resp.body.status = "failed"
                      /\ resp.body.error.message =
                            (IF j.errorMessage \in {None, ""}
                             THEN "Analysis failed" ELSE j.errorMessage)
                      /\ resp.body.error.code =
                            (IF j.errorCode \in {None, ""}
                             THEN "ANALYSIS_FAILED" ELSE j.errorCode)
                      /\ "result" \notin DOMAIN resp.body
                /\ "result" \in DOMAIN resp.body => j.status = "completed"

\* the owner asked for the result of a failed job that has a code and no
\* message
C12_Witness ==
    /\ Answered("result")
    /\ \E j \in jobs :
          /\ j.id = resp.arg /\ j.userId = resp.session
          /\ j.status = "failed"
          /\ j.errorMessage = None
          /\ j.errorCode = "REPO_NOT_ACCESSIBLE"
    /\ resp.body.error.message = "Analysis failed"

\* C13: an error response has the body {error: {message, code}}, with
\* details exactly when the thrown ApiError carries them; an ApiError is
\* reported with its statusCode, code and message, every other thrown value
\* as 500 INTERNAL_ERROR 'Internal server error', without its message, its
\* code or its details.
C13_ErrorStructure ==
    fn = "errorResponse" =>
        /\ DOMAIN fnRet = {"status", "body"}
        /\ DOMAIN fnRet.body = {"error"}
        /\ DOMAIN fnRet.body.error = {"message", "code", "details"}
        /\ fnRet.body.error.details # None <=>
              (fnArg.kind = "ApiError" /\ fnArg.details # None)
        /\ fnArg.kind = "ApiError" =>
              /\ fnRet.status = fnArg.statusCode
              /\ fnRet.body.error.code = fnArg.code
              /\ fnRet.body.error.message = fnArg.message
              /\ fnRet.body.error.details = fnArg.details
        /\ fnArg.kind # "ApiError" =>
              /\ fnRet.status = 500
              /\ fnRet.body.error.code = "INTERNAL_ERROR"
              /\ fnRet.body.error.message = "Internal server error"
              /\ fnRet.body.error.message # fnArg.message

\* the Error of getUserId, with statusCode 401 and code UNAUTHORIZED set on
\* it, was reported
C13_Witness ==
    /\ fn = "errorResponse"
    /\ fnArg.kind = "Error"
    /\ fnArg.code = "UNAUTHORIZED"
    /\ fnArg.statusCode = 401
    /\ fnArg.message = "Authentication required"
    /\ fnRet.status = 500

\* the band of the design system: 0-30 green, 31-60 yellow, 61-100 red
BandOf(score) ==
    IF score \in 0..30 THEN "green"
    ELSE IF score \in 31..60 THEN "yellow"
    ELSE "red"

BandText == [green |-> "text-green-600", yellow |-> "text-yellow-600",
             red |-> "text-red-600"]

BandBg == [green |-> "bg-green-50", yellow |-> "bg-yellow-50", red |-> "bg-red-50"]

BandLabel == [green |-> "Clean Code", yellow |-> "Some Slop", red |-> "High Slop"]

\* C14: for every integer score 0..100, getScoreColor, getScoreBgColor and
\* getScoreLabel give the colour and the label of the score's band (0-30
\* green 'Clean Code', 31-60 yellow 'Some Slop', 61-100 red 'High Slop'),
\* and ScoreGauge draws exactly the arc segment of that band at full
\* opacity, with the colour and the label of that band.
C14_ScoreBands ==
    (fn # None /\ fnArg \in 0..100) =>
        LET band == BandOf(fnArg)
        IN  /\ fn = "getScoreColor" => fnRet = BandText[band]
            /\ fn = "getScoreBgColor" => fnRet = BandBg[band]
            /\ fn = "getScoreLabel" => fnRet = BandLabel[band]
            /\ fn = "ScoreGauge" =>
                  /\ {s \in DOMAIN fnRet.opacity : fnRet.opacity[s] = 10} = {band}
                  /\ \A s \in DOMAIN fnRet.opacity : fnRet.opacity[s] \in {3, 10}
                  /\ fnRet.colorClass = BandText[band]
                  /\ fnRet.label \in {None, BandLabel[band]}
                  /\ fnRet.text = fnArg

\* the gauge of score 60, the last yellow one, was drawn with its label
C14_Witness ==
    /\ fn = "ScoreGauge"
    /\ fnArg = 60
    /\ fnRet.opacity.yellow = 10
    /\ fnRet.label = "Some Slop"

\* C15: generateRepoSlug gives two different (owner, repo) pairs two
\* different slugs.
C15_SlugUnique ==
    fn = "generateRepoSlug" =>
        \A i, j \in 1..Len(fnRet) :
            fnRet[i] = fnRet[j] => fnArg[i] = fnArg[j]

\* C16: for every URL the search input accepts, the path the home page
\* navigates to is / followed by generateRepoSlug(owner, repo) for the
\* owner and the repository of that URL.
C16_HomeSlug ==
    (fn = "handleSubmit" /\ fnRet.error = "") =>
        fnRet.pushed = <<Slash>> \o generateRepoSlug(fnArg.owner, fnArg.repo)

====
